---- MODULE Spec2Model ----
(***************************************************************************)
(* Pulse AI Assistant performance dashboard (app-ai-performance.py).       *)
(*                                                                         *)
(* The model covers the reactive pipeline of server(): the three inputs    *)
(* (date_range, intervention_types, customer_segments), the reactive calc  *)
(* filtered_data with its cached value, and the ten render handlers that   *)
(* read it.  Timestamps are integers counted in ticks, TicksPerDay ticks   *)
(* to a calendar day; day 0 is Sunday 2023-12-31, day 1 Monday 2024-01-01. *)
(* Amounts are integers; a quotient is kept as [num, den].                 *)
(***************************************************************************)
EXTENDS Integers, Sequences, FiniteSets, TLC

\* ------------------------------------------------------------- bounds ----
MaxRows == 2
MaxDay == 1
TicksPerDay == 2

\* ------------------------------------------------------- value domains ----
CustIds == {"C1", "C2"}
SegmentOrder == <<"Budget Conscious", "Power User">>
TypeOrder == <<"Billing Support", "Technical Support">>

Range(s) == {s[i] : i \in DOMAIN s}
Segments == Range(SegmentOrder)
Types == Range(TypeOrder)
Days == 0..MaxDay
Timestamps == 0..((MaxDay + 1) * TicksPerDay - 1)

NaN == "NaN"

MergedCols == {"customer_id", "intervention_date", "intervention_type",
               "savings_amount", "confidence_score", "customer_segment"}

Handlers == {"total_savings_box", "total_interventions_box", "avg_confidence_box",
             "unique_customers_box", "savings_trend_plot", "intervention_portfolio",
             "segment_adoption_plot", "monthly_trends", "financial_summary",
             "cumulative_savings"}

VARIABLES ai_interventions, customers, date_range, intervention_types,
          customer_segments, calc, out

vars == <<ai_interventions, customers, date_range, intervention_types,
          customer_segments, calc, out>>

\* ------------------------------------------------------ date handling ----
\* The date picker holds calendar dates: a timestamp given to it loses its
\* time of day.
ToDate(ts) == ts \div TicksPerDay

\* pd.to_datetime of a calendar date is that date's midnight.
to_datetime(d) == d * TicksPerDay

\* dt.to_period("W").start_time: the Monday on or before the day.
week_start(ts) == ToDate(ts) - ((ToDate(ts) + 6) % 7)

\* dt.to_period("M").start_time: the first day of the month.
month_start(ts) == IF ToDate(ts) < 1 THEN -30 ELSE 1

\* ------------------------------------------------- sequence utilities ----
RECURSIVE SumOf(_, _)
SumOf(s, col) == IF s = << >> THEN 0 ELSE s[1][col] + SumOf(Tail(s), col)

Column(s, col) == [i \in DOMAIN s |-> s[i][col]]

Mean(s, col) == IF Len(s) = 0 THEN NaN ELSE [num |-> SumOf(s, col), den |-> Len(s)]

\* Variant of NUnique that counts rows (count in place of nunique).
NUnique_counting_rows(s, col) == Len(s)

NUnique(s, col) == Cardinality(Range(Column(s, col)))

\* Variant of isin that takes an empty selection for "no filter".
isin_empty_selects_all(v, selected) == selected = {} \/ v \in selected

isin(v, selected) == v \in selected

SetMin(S) == CHOOSE x \in S : \A y \in S : x <= y

RECURSIVE SortedInts(_)
SortedInts(S) == IF S = {} THEN << >>
                 ELSE <<SetMin(S)>> \o SortedInts(S \ {SetMin(S)})

RECURSIVE Concat(_)
Concat(ss) == IF ss = << >> THEN << >> ELSE ss[1] \o Concat(Tail(ss))

\* ------------------------------------------------------ Dataset Store ----
\* The columns of an intervention row that the filter tests.
InterventionKeys == [customer_id : CustIds, intervention_date : Timestamps,
                     intervention_type : Types]

\* The i-th row of a table saves SavingsAt(i) with confidence ConfidenceAt(i):
\* amounts differ from row to row, so the order of rows shows in a running sum.
SavingsAt(i) == 10 * i
ConfidenceAt(i) == 100 - 10 * i

InterventionTables ==
    {[i \in DOMAIN k |-> [customer_id |-> k[i].customer_id,
                          intervention_date |-> k[i].intervention_date,
                          intervention_type |-> k[i].intervention_type,
                          savings_amount |-> SavingsAt(i),
                          confidence_score |-> ConfidenceAt(i)]] :
        k \in UNION {[1..n -> InterventionKeys] : n \in 1..MaxRows}}

\* Customer tables: customer_id is a unique key; "C1" is always a customer,
\* "C2" may be missing, so that an intervention can refer to no customer.
CustomerTables ==
    {<<[customer_id |-> "C1", customer_segment |-> s]>> : s \in Segments}
    \cup {<<[customer_id |-> "C1", customer_segment |-> s],
            [customer_id |-> "C2", customer_segment |-> t]>> :
          s \in Segments, t \in Segments}

\* ------------------------------------------------------ Filter Engine ----
\* Boolean mask of lines 164-174: both date comparisons are made between the
\* row's timestamp and the midnight of the picked date.
filtered_ai(ai, dr, types) ==
    LET keep(r) == /\ r.intervention_date >= to_datetime(dr[1])
                   /\ r.intervention_date <= to_datetime(dr[2])
                   /\ isin(r.intervention_type, types)
    IN SelectSeq(ai, keep)

\* One left row joined with the customer table: one output row per matching
\* customer, or one row with a null segment when there is none.
merge_row(r, cu) ==
    LET match(c) == c.customer_id = r.customer_id
        hits == SelectSeq(cu, match)
        with(seg) == [customer_id |-> r.customer_id,
                      intervention_date |-> r.intervention_date,
                      intervention_type |-> r.intervention_type,
                      savings_amount |-> r.savings_amount,
                      confidence_score |-> r.confidence_score,
                      customer_segment |-> seg]
    IN IF hits = << >> THEN <<with(NaN)>>
       ELSE [i \in DOMAIN hits |-> with(hits[i].customer_segment)]

\* DataFrame.merge(customers, on="customer_id", how="left")
merge_left(left, cu) == Concat([i \in DOMAIN left |-> merge_row(left[i], cu)])

\* Body of filtered_data: the rows of the returned frame.
merged_data(ai, cu, dr, types, segs) ==
    LET keep(r) == isin(r.customer_segment, segs)
    IN SelectSeq(merge_left(filtered_ai(ai, dr, types), cu), keep)

\* The frame a run of filtered_data builds from the current inputs.
Fresh == [rows |-> merged_data(ai_interventions, customers, date_range,
                               intervention_types, customer_segments),
          cols |-> MergedCols]

\* Variant of calc_deps in which the segment selection is not tracked.
calc_deps_without_segments == {"date_range", "intervention_types"}

\* The inputs filtered_data reads, hence the inputs that invalidate it.
calc_deps == {"date_range", "intervention_types", "customer_segments"}

NoFrame == [rows |-> << >>, cols |-> {}]
Invalid == [valid |-> FALSE, value |-> NoFrame]

\* Reading the reactive calc: the cached frame while it is valid, a new run
\* otherwise.  The object returned is the cached object itself.
filtered_data == IF calc.valid THEN calc.value ELSE Fresh

\* -------------------------------------------------- Constraint State ----
TypeChoices == Range(Column(ai_interventions, "intervention_type"))
SegmentChoices == Range(Column(customers, "customer_segment"))

NoOut == [name |-> "none", data |-> << >>, value |-> << >>]

\* An input changed: every reactive that read it is invalidated, and so are
\* the outputs that read those.
Invalidate(inputName) ==
    IF inputName \in calc_deps
    THEN calc' = Invalid /\ out' = NoOut
    ELSE /\ UNCHANGED calc
         /\ out' = IF inputName = "date_range" /\ out.name = "financial_summary"
                   THEN NoOut ELSE out

SetDateRange ==
    /\ \E s \in Days, e \in Days :
          /\ s <= e
          /\ <<s, e>> # date_range
          /\ date_range' = <<s, e>>
    /\ Invalidate("date_range")
    /\ UNCHANGED <<ai_interventions, customers, intervention_types, customer_segments>>

SetInterventionTypes ==
    /\ \E sel \in SUBSET TypeChoices :
          /\ sel # intervention_types
          /\ intervention_types' = sel
    /\ Invalidate("intervention_types")
    /\ UNCHANGED <<ai_interventions, customers, date_range, customer_segments>>

SetCustomerSegments ==
    /\ \E sel \in SUBSET SegmentChoices :
          /\ sel # customer_segments
          /\ customer_segments' = sel
    /\ Invalidate("customer_segments")
    /\ UNCHANGED <<ai_interventions, customers, date_range, intervention_types>>

\* -------------------------------------------------- Aggregation Engine ----
\* groupby("week")["savings_amount"].sum().reset_index(), week as start_time
weekly_savings(rows) ==
    LET weeks == SortedInts({week_start(rows[i].intervention_date) : i \in DOMAIN rows})
        grp(w) == LET member(r) == week_start(r.intervention_date) = w
                  IN SelectSeq(rows, member)
    IN [k \in DOMAIN weeks |->
          [week |-> weeks[k], savings_amount |-> SumOf(grp(weeks[k]), "savings_amount")]]

\* groupby("intervention_type").agg(sum, mean).reset_index()
portfolio(rows) ==
    LET present(t) == \E i \in DOMAIN rows : rows[i].intervention_type = t
        keys == SelectSeq(TypeOrder, present)
        grp(t) == LET member(r) == r.intervention_type = t IN SelectSeq(rows, member)
    IN [k \in DOMAIN keys |->
          [intervention_type |-> keys[k],
           savings_amount |-> SumOf(grp(keys[k]), "savings_amount"),
           confidence_score |-> Mean(grp(keys[k]), "confidence_score")]]

\* groupby("customer_segment").agg(nunique, sum).reset_index()
segment_stats(rows) ==
    LET present(g) == \E i \in DOMAIN rows : rows[i].customer_segment = g
        keys == SelectSeq(SegmentOrder, present)
        grp(g) == LET member(r) == r.customer_segment = g IN SelectSeq(rows, member)
    IN [k \in DOMAIN keys |->
          [customer_segment |-> keys[k],
           customer_id |-> NUnique(grp(keys[k]), "customer_id"),
           savings_amount |-> SumOf(grp(keys[k]), "savings_amount")]]

\* customers.groupby("customer_segment").size().reset_index(name=...)
total_customers(cu) ==
    LET present(g) == \E i \in DOMAIN cu : cu[i].customer_segment = g
        keys == SelectSeq(SegmentOrder, present)
        grp(g) == LET member(c) == c.customer_segment = g IN SelectSeq(cu, member)
    IN [k \in DOMAIN keys |->
          [customer_segment |-> keys[k], total_customers |-> Len(grp(keys[k]))]]

\* segment_stats.merge(total_customers, on="customer_segment") and the
\* adoption_rate column: an inner join, one row per segment on both sides.
adoption(rows, cu) ==
    LET totals == total_customers(cu)
        joined(st) == LET same(t) == t.customer_segment = st.customer_segment
                          hits == SelectSeq(totals, same)
                      IN [i \in DOMAIN hits |->
                            [customer_segment |-> st.customer_segment,
                             customer_id |-> st.customer_id,
                             savings_amount |-> st.savings_amount,
                             total_customers |-> hits[i].total_customers,
                             adoption_rate |-> [num |-> st.customer_id,
                                                den |-> hits[i].total_customers]]]
        stats == segment_stats(rows)
    IN Concat([k \in DOMAIN stats |-> joined(stats[k])])

\* groupby(["month", "intervention_type"]).agg(sum, mean).reset_index()
monthly_data(rows) ==
    LET months == SortedInts({month_start(rows[i].intervention_date) : i \in DOMAIN rows})
        grp(m, t) == LET member(r) == /\ month_start(r.intervention_date) = m
                                  /\ r.intervention_type = t
                     IN SelectSeq(rows, member)
        ofMonth(m) == LET present(t) == grp(m, t) # << >>
                          keys == SelectSeq(TypeOrder, present)
                      IN [k \in DOMAIN keys |->
                            [month |-> m, intervention_type |-> keys[k],
                             savings_amount |-> SumOf(grp(m, keys[k]), "savings_amount"),
                             confidence_score |-> Mean(grp(m, keys[k]), "confidence_score")]]
    IN Concat([j \in DOMAIN months |-> ofMonth(months[j])])

\* (to_datetime(end) - to_datetime(start)).days
days_in_period(dr) == (to_datetime(dr[2]) - to_datetime(dr[1])) \div TicksPerDay

Max(a, b) == IF a >= b THEN a ELSE b

\* The numbers financial_summary derives; projected_annual is
\* total_savings / max(days_in_period, 1) * 365.
financial(rows, dr) ==
    [total_savings |-> SumOf(rows, "savings_amount"),
     total_interventions |-> Len(rows),
     avg_savings_per_intervention |-> Mean(rows, "savings_amount"),
     projected_annual |-> [num |-> SumOf(rows, "savings_amount") * 365,
                           den |-> Max(days_in_period(dr), 1)]]

\* sort_values("intervention_date") runs the default sort kind, quicksort,
\* which keeps no order among rows of equal date: every arrangement of the
\* rows that is ascending by date is a possible result.
Injective(p) == \A i \in DOMAIN p, j \in DOMAIN p : p[i] = p[j] => i = j

sort_values(rows) ==
    {[k \in DOMAIN rows |-> rows[p[k]]] :
        p \in {q \in [DOMAIN rows -> DOMAIN rows] :
                 /\ Injective(q)
                 /\ \A i \in DOMAIN rows, j \in DOMAIN rows :
                       i < j => rows[q[i]].intervention_date
                                   <= rows[q[j]].intervention_date}}

\* Variant of cumsum that emits each row's own amount, with no running total.
cumsum_without_running_total(sorted) ==
    [k \in DOMAIN sorted |->
        [intervention_date |-> sorted[k].intervention_date,
         cumulative_savings |-> sorted[k].savings_amount]]

\* data["cumulative_savings"] = data["savings_amount"].cumsum()
cumsum(sorted) ==
    [k \in DOMAIN sorted |->
        [intervention_date |-> sorted[k].intervention_date,
         cumulative_savings |-> SumOf(SubSeq(sorted, 1, k), "savings_amount")]]

\* ----------------------------------------------------- render handlers ----
\* A handler reads the reactive calc (which runs it when invalid and caches
\* the frame), may assign columns on the frame it was handed, and renders.
Render(name, addedCols, value) ==
    /\ out.name # name
    /\ calc' = [valid |-> TRUE,
                value |-> [filtered_data EXCEPT !.cols = @ \cup addedCols]]
    /\ out' = [name |-> name, data |-> filtered_data.rows, value |-> value]
    /\ UNCHANGED <<ai_interventions, customers, date_range, intervention_types,
                   customer_segments>>

total_savings_box ==
    Render("total_savings_box", {}, SumOf(filtered_data.rows, "savings_amount"))

total_interventions_box ==
    Render("total_interventions_box", {}, Len(filtered_data.rows))

avg_confidence_box ==
    Render("avg_confidence_box", {}, Mean(filtered_data.rows, "confidence_score"))

unique_customers_box ==
    Render("unique_customers_box", {}, NUnique(filtered_data.rows, "customer_id"))

\* data["week"] = ... assigns a column on the frame filtered_data returned.
savings_trend_plot ==
    Render("savings_trend_plot", {"week"}, weekly_savings(filtered_data.rows))

intervention_portfolio ==
    Render("intervention_portfolio", {}, portfolio(filtered_data.rows))

segment_adoption_plot ==
    Render("segment_adoption_plot", {}, adoption(filtered_data.rows, customers))

\* data["month"] = ... assigns a column on the frame filtered_data returned.
monthly_trends ==
    Render("monthly_trends", {"month"}, monthly_data(filtered_data.rows))

financial_summary ==
    Render("financial_summary", {}, financial(filtered_data.rows, date_range))

\* sort_values returns a new frame; the cumulative column goes on that copy.
cumulative_savings ==
    \E sorted \in sort_values(filtered_data.rows) :
        Render("cumulative_savings", {}, cumsum(sorted))

\* --------------------------------------------------------------- system ----
\* The date picker starts at the dates of the first and last intervention,
\* both selectize inputs start with every observed value selected.
InitialDateRange(ai) ==
    LET stamps == Range(Column(ai, "intervention_date"))
        lo == CHOOSE x \in stamps : \A y \in stamps : x <= y
        hi == CHOOSE x \in stamps : \A y \in stamps : x >= y
    IN <<ToDate(lo), ToDate(hi)>>

Init ==
    /\ ai_interventions \in InterventionTables
    /\ customers \in CustomerTables
    /\ date_range = InitialDateRange(ai_interventions)
    /\ intervention_types = TypeChoices
    /\ customer_segments = SegmentChoices
    /\ calc = Invalid
    /\ out = NoOut

Next ==
    \/ SetDateRange
    \/ SetInterventionTypes
    \/ SetCustomerSegments
    \/ total_savings_box
    \/ total_interventions_box
    \/ avg_confidence_box
    \/ unique_customers_box
    \/ savings_trend_plot
    \/ intervention_portfolio
    \/ segment_adoption_plot
    \/ monthly_trends
    \/ financial_summary
    \/ cumulative_savings

Spec == Init /\ [][Next]_vars

\* ------------------------------------------------------------ properties ----
\* The working set the current inputs call for.
CurrentWorkingSet == merged_data(ai_interventions, customers, date_range,
                                 intervention_types, customer_segments)

\* Two quotients [num, den] with positive denominators are the same number.
SameQuotient(a, b) == a.num * b.den = b.num * a.den

\* C1: every aggregation that has rendered was computed from the working set
\* of the current date range, types and segments, never from the working set
\* of an earlier input state nor from the whole interventions table; the
\* totals are the row count and the sum over that set.
C1_AggregationsReadCurrentWorkingSet ==
    out.name \in Handlers =>
        /\ out.data = CurrentWorkingSet
        /\ out.name = "total_interventions_box" => out.value = Len(CurrentWorkingSet)
        /\ out.name = "total_savings_box"
              => out.value = SumOf(CurrentWorkingSet, "savings_amount")

\* C1 witness: after a change of the selected segments, a total was rendered
\* from a working set that is a non-empty strict part of the joined table.
C1_Witness ==
    /\ out.name = "total_savings_box"
    /\ customer_segments # SegmentChoices
    /\ out.data # << >>
    /\ Len(out.data) < Len(merge_left(ai_interventions, customers))

\* C2: with no intervention type selected, or no customer segment selected,
\* the working set a handler gets has no rows, and the handler completes.
C2_EmptySelectionGivesEmptyWorkingSet ==
    (out.name \in Handlers /\ (intervention_types = {} \/ customer_segments = {}))
        => /\ out.data = << >>
           /\ calc.valid
           /\ calc.value.rows = << >>

\* C2 witness: a handler ran with no type selected while the date range and
\* the segments alone would have kept rows.
C2_Witness ==
    /\ out.name \in Handlers
    /\ intervention_types = {}
    /\ customer_segments # {}
    /\ merged_data(ai_interventions, customers, date_range, TypeChoices,
                   customer_segments) # << >>

\* The joined form of an intervention row (customer_id is a unique key).
Joined(r) == merge_row(r, customers)[1]

InWorkingSet(r) == \E j \in DOMAIN out.data : out.data[j] = Joined(r)

\* C3: an intervention is in the working set exactly when its calendar date
\* lies in the selected range, both end dates included, and its type and its
\* customer's segment are selected.
C3_DateRangeInclusiveOnCalendarDates ==
    out.name \in Handlers =>
        \A i \in DOMAIN ai_interventions :
            LET r == ai_interventions[i]
            IN InWorkingSet(r) <=>
                  /\ ToDate(r.intervention_date) >= date_range[1]
                  /\ ToDate(r.intervention_date) <= date_range[2]
                  /\ r.intervention_type \in intervention_types
                  /\ Joined(r).customer_segment \in customer_segments

\* C4: with the inputs at their initial values the working set has as many
\* rows as the interventions table left-joined with the customers.
C4_InitialInputsKeepEveryRow ==
    (/\ out.name \in Handlers
     /\ date_range = InitialDateRange(ai_interventions)
     /\ intervention_types = TypeChoices
     /\ customer_segments = SegmentChoices)
        => Len(out.data) = Len(merge_left(ai_interventions, customers))

\* C5: no handler changes the shared working set: while filtered_data stays
\* valid its frame keeps the same rows and the same columns.
C5_HandlersLeaveWorkingSetUnchanged ==
    [][(calc.valid /\ calc'.valid) => calc'.value = calc.value]_vars

\* C6: every row of the segment adoption rollup has a positive customer
\* total, the total is the segment's row count in the customers table, the
\* numerator is the segment's distinct customers in the working set, and the
\* rate lies in [0, 1].
C6_AdoptionRateInUnitInterval ==
    out.name = "segment_adoption_plot" =>
        \A k \in DOMAIN out.value :
            LET row == out.value[k]
                adopters == {out.data[i].customer_id :
                               i \in {j \in DOMAIN out.data :
                                        out.data[j].customer_segment = row.customer_segment}}
                population == {i \in DOMAIN customers :
                                 customers[i].customer_segment = row.customer_segment}
            IN /\ row.total_customers > 0
               /\ row.adoption_rate.den = Cardinality(population)
               /\ row.adoption_rate.num = Cardinality(adopters)
               /\ 0 <= row.adoption_rate.num
               /\ row.adoption_rate.num <= row.adoption_rate.den

\* C6 witness: the rollup has a segment with more working-set rows than
\* distinct customers.
C6_Witness ==
    /\ out.name = "segment_adoption_plot"
    /\ \E k \in DOMAIN out.value :
          Cardinality({j \in DOMAIN out.data :
                         out.data[j].customer_segment = out.value[k].customer_segment})
             > out.value[k].customer_id

\* C7: on a non-empty working set the cumulative series has one entry per
\* row and ends at the total savings of that working set.
C7_CumulativeEndsAtTotalSavings ==
    (out.name = "cumulative_savings" /\ out.data # << >>) =>
        /\ Len(out.value) = Len(out.data)
        /\ out.value[Len(out.value)].cumulative_savings
              = SumOf(out.data, "savings_amount")
        /\ \A k \in 1..(Len(out.value) - 1) :
              out.value[k].intervention_date <= out.value[k + 1].intervention_date

\* C7 witness: a cumulative series over two or more rows that were not in
\* date order in the working set.
C7_Witness ==
    /\ out.name = "cumulative_savings"
    /\ Len(out.data) >= 2
    /\ out.data[1].intervention_date > out.data[2].intervention_date

\* C8: the projected annual savings are the total savings of the working
\* set divided by the inclusive day span of the selected range,
\* end - start + 1 (at least 1), times 365.
C8_InclusiveDaySpan ==
    out.name = "financial_summary" =>
        SameQuotient(out.value.projected_annual,
                     [num |-> SumOf(CurrentWorkingSet, "savings_amount") * 365,
                      den |-> Max(date_range[2] - date_range[1] + 1, 1)])

\* On an empty working set the totals are 0 and the series are empty.
EmptyTotalsAndSeriesNeutral ==
    (out.name \in Handlers /\ out.data = << >>) =>
        /\ out.name \in {"total_savings_box", "total_interventions_box",
                         "unique_customers_box"} => out.value = 0
        /\ out.name \in {"savings_trend_plot", "intervention_portfolio",
                         "segment_adoption_plot", "monthly_trends",
                         "cumulative_savings"} => out.value = << >>
        /\ out.name = "financial_summary"
              => out.value.total_savings = 0 /\ out.value.total_interventions = 0

\* C9: on an empty working set every aggregation gives its neutral value,
\* and the two means give a defined value, not the mean of nothing.
C9_EmptyWorkingSetNeutralValues ==
    /\ EmptyTotalsAndSeriesNeutral
    /\ (out.name = "avg_confidence_box" /\ out.data = << >>) => out.value # NaN
    /\ (out.name = "financial_summary" /\ out.data = << >>)
          => out.value.avg_savings_per_intervention # NaN

\* Rows in ascending date order, rows of equal date in their input order.
RECURSIVE StableSorted(_)
StableSorted(rows) ==
    IF rows = << >> THEN << >>
    ELSE LET first == CHOOSE i \in DOMAIN rows :
                        \A j \in DOMAIN rows :
                           \/ rows[i].intervention_date < rows[j].intervention_date
                           \/ /\ rows[i].intervention_date = rows[j].intervention_date
                              /\ i <= j
             rest == [k \in 1..(Len(rows) - 1) |->
                         IF k < first THEN rows[k] ELSE rows[k + 1]]
         IN <<rows[first]>> \o StableSorted(rest)

\* C10: the cumulative series follows the working set sorted by date with
\* rows of equal date kept in working-set order, so the working set
\* determines the series.
C10_TiesKeepInputOrder ==
    out.name = "cumulative_savings" => out.value = cumsum(StableSorted(out.data))

====
